---- MODULE Spec2Model ----
(***************************************************************************)
(* A model of src/server.py: the DynamoDB tool handlers registered on the  *)
(* MCP server, the value codec they use, and the session protocol their    *)
(* callers speak.                                                          *)
(*                                                                         *)
(* Python values are records of one shape, so that any two of them can be  *)
(* compared: t is the Python type, s the text str() gives for a scalar,    *)
(* keys/items the keys and values of a dict (in insertion order) or the    *)
(* elements of a list.                                                     *)
(***************************************************************************)
EXTENDS Naturals, Sequences, FiniteSets, TLC

VARIABLES db, last, sessions, issued, sessionId, reqs, frames

vars == <<db, last, sessions, issued, sessionId, reqs, frames>>

(* ------------------------------ bounds -------------------------------- *)

\* The largest `limit` argument a caller passes to list/scan/query.
MaxLimit == 1

\* The number of session ids the server can issue in one run.
MaxSessions == 1

\* The number of requests that can be in flight at once.
MaxInFlight == 2

(* --------------------------- Python values ---------------------------- *)

PyStr(s) == [t |-> "str", s |-> s, keys |-> <<>>, items |-> <<>>]

PyInt(s) == [t |-> "int", s |-> s, keys |-> <<>>, items |-> <<>>]

PyFloat(s) == [t |-> "float", s |-> s, keys |-> <<>>, items |-> <<>>]

\* s is "True" or "False", the text str() gives.
PyBool(s) == [t |-> "bool", s |-> s, keys |-> <<>>, items |-> <<>>]

PyNone == [t |-> "NoneType", s |-> "None", keys |-> <<>>, items |-> <<>>]

PyList(items) == [t |-> "list", s |-> "", keys |-> <<>>, items |-> items]

PyDict(keys, items) == [t |-> "dict", s |-> "", keys |-> keys, items |-> items]

EmptyDict == PyDict(<<>>, <<>>)

\* isinstance(value, cls): bool is a subclass of int in Python.
isinstance(value, cls) ==
    \/ value.t = cls
    \/ cls = "int" /\ value.t = "bool"

\* str(value) for the scalars.
str(value) == value.s

\* The truth value Python gives `if value:`.
Truthy(value) ==
    CASE value.t = "NoneType" -> FALSE
      [] value.t = "bool" -> value.s = "True"
      [] value.t = "int" -> value.s # "0"
      [] value.t = "float" -> value.s # "0.0"
      [] value.t = "str" -> value.s # ""
      [] OTHER -> Len(value.items) > 0

HasKey(d, k) == \E i \in 1..Len(d.keys) : d.keys[i] = k

\* d[k]
Lookup(d, k) == d.items[CHOOSE i \in 1..Len(d.keys) : d.keys[i] = k]

\* d.get(k, default)
DictGet(d, k, default) == IF HasKey(d, k) THEN Lookup(d, k) ELSE default

\* d[k] = v on a copy of d
DictSet(d, k, v) ==
    IF HasKey(d, k)
    THEN PyDict(d.keys, [i \in 1..Len(d.keys) |-> IF d.keys[i] = k THEN v ELSE d.items[i]])
    ELSE PyDict(Append(d.keys, k), Append(d.items, v))

\* params[k] = v when cond holds (the handlers' `if x: params[...] = x`).
SetIf(cond, d, k, v) == IF cond THEN DictSet(d, k, v) ELSE d

Digits == <<"0", "1", "2", "3", "4", "5", "6", "7", "8", "9">>

IntStr(n) == Digits[n + 1]

IntVal(s) == CHOOSE n \in 0..9 : Digits[n + 1] = s

(* ----------------------------- the codec ------------------------------ *)

RECURSIVE serialize_dynamodb_value(_)

serialize_dynamodb_value(value) ==
    IF isinstance(value, "str") THEN PyDict(<<"S">>, <<value>>)
    ELSE IF isinstance(value, "int") \/ isinstance(value, "float")
    THEN PyDict(<<"N">>, <<PyStr(str(value))>>)
    ELSE IF isinstance(value, "bool") THEN PyDict(<<"BOOL">>, <<value>>)
    ELSE IF isinstance(value, "list")
    THEN PyDict(<<"L">>,
                <<PyList([i \in 1..Len(value.items) |->
                            serialize_dynamodb_value(value.items[i])])>>)
    ELSE IF isinstance(value, "dict")
    THEN PyDict(<<"M">>,
                <<PyDict(value.keys,
                         [i \in 1..Len(value.items) |->
                            serialize_dynamodb_value(value.items[i])])>>)
    ELSE IF value = PyNone THEN PyDict(<<"NULL">>, <<PyBool("True")>>)
    ELSE PyDict(<<"S">>, <<PyStr(str(value))>>)

serialize_dynamodb_item(item) ==
    IF isinstance(item, "dict")
    THEN PyDict(item.keys,
                [i \in 1..Len(item.items) |-> serialize_dynamodb_value(item.items[i])])
    ELSE item

(* ------------------------- the remote database ------------------------ *)

\* The tables of the account, in the order ListTables gives them.
TableList == <<"Orders", "Users">>

ExistingTables == {TableList[i] : i \in 1..Len(TableList)}

\* The partition keys of table Orders, in the order a scan reads them.
KeyOrder == <<"42", "7">>

KeyIds == {KeyOrder[i] : i \in 1..Len(KeyOrder)}

\* An item no one wrote: orig is the plain item a caller passed to the tool
\* that wrote it, stored the attribute-value mapping the database received.
Absent == [present |-> FALSE, orig |-> PyNone, stored |-> PyNone]

Entry(orig, stored) == [present |-> TRUE, orig |-> orig, stored |-> stored]

Arn(name) ==
    IF name = "Orders" THEN "arn:aws:dynamodb:table/Orders"
    ELSE IF name = "Users" THEN "arn:aws:dynamodb:table/Users"
    ELSE "arn:aws:dynamodb:table/Ghost"

\* What a boto3 client method can do: return a response, raise ClientError
\* (the service answered with an error), or raise another botocore exception
\* (EndpointConnectionError, ReadTimeoutError, NoCredentialsError: none of
\* them a ClientError).
Ok(body) == [kind |-> "ok", body |-> body]

ClientError == [kind |-> "ClientError",
                body |-> PyStr("An error occurred (ValidationException) when calling the operation")]

OtherError == [kind |-> "BotoCoreError",
               body |-> PyStr("Could not connect to the endpoint URL")]

NoResponse == [kind |-> "none", body |-> PyNone]

Min(a, b) == IF a < b THEN a ELSE b

\* The id an attribute-value key or item names: key['id']['S'].
KeyId(tagged) == Lookup(Lookup(tagged, "id"), "S").s

Stored(k) == IF k \in KeyIds /\ db[k].present THEN {db[k].stored} ELSE {}

FilterPass(params, item) ==
    HasKey(params, "FilterExpression") => HasKey(item, "qty")

\* The items a Scan or a Query reads, in order.
Candidates(op, params) ==
    LET Wanted(k) ==
            /\ db[k].present
            /\ op = "query" => k = KeyId(PyDict(<<"id">>,
                                  <<Lookup(Lookup(params, "ExpressionAttributeValues"), ":id")>>))
        keys == SelectSeq(KeyOrder, Wanted)
    IN [i \in 1..Len(keys) |-> db[keys[i]].stored]

\* A Scan/Query response that read the first n of the candidates: it carries
\* LastEvaluatedKey exactly when candidates remain unread.
PageBody(op, params, all, n) ==
    LET Pass(item) == FilterPass(params, item)
        items == SelectSeq(SubSeq(all, 1, n), Pass)
        base == PyDict(<<"Items", "Count", "ScannedCount">>,
                       <<PyList(items), PyInt(IntStr(Len(items))), PyInt(IntStr(n))>>)
    IN SetIf(n < Len(all), base, "LastEvaluatedKey",
             IF n < Len(all) /\ n > 0
             THEN PyDict(<<"id">>, <<Lookup(all[n], "id")>>) ELSE PyNone)

\* The database stops a page at Limit items, or earlier (the 1 MB page size).
PageBodies(op, params) ==
    LET all == Candidates(op, params)
        cap == IF HasKey(params, "Limit")
               THEN Min(IntVal(Lookup(params, "Limit").s), Len(all)) ELSE Len(all)
    IN {PageBody(op, params, all, n) : n \in {m \in 0..cap : m > 0 \/ Len(all) = 0}}

ListTablesBody(params) ==
    LET from == IF HasKey(params, "ExclusiveStartTableName")
                THEN (IF \E i \in 1..Len(TableList) :
                            TableList[i] = Lookup(params, "ExclusiveStartTableName").s
                      THEN CHOOSE i \in 1..Len(TableList) :
                            TableList[i] = Lookup(params, "ExclusiveStartTableName").s
                      ELSE 0)
                ELSE 0
        rest == SubSeq(TableList, from + 1, Len(TableList))
        n == IF HasKey(params, "Limit")
             THEN Min(IntVal(Lookup(params, "Limit").s), Len(rest)) ELSE Len(rest)
        base == PyDict(<<"TableNames">>, <<PyList([i \in 1..n |-> PyStr(rest[i])])>>)
    IN SetIf(n < Len(rest), base, "LastEvaluatedTableName",
             IF n > 0 /\ n < Len(rest) THEN PyStr(rest[n]) ELSE PyNone)

\* The item an UpdateItem leaves: SET #a = :v on the stored item, or on the
\* key alone when there was none.
Updated(params) ==
    LET key == Lookup(params, "Key")
        current == IF db[KeyId(key)].present THEN db[KeyId(key)].stored ELSE key
    IN DictSet(current,
               Lookup(Lookup(params, "ExpressionAttributeNames"), "#a").s,
               Lookup(Lookup(params, "ExpressionAttributeValues"), ":v"))

TableDescription(name) ==
    PyDict(<<"TableDescription">>, <<PyDict(<<"TableArn">>, <<PyStr(Arn(name))>>)>>)

\* The responses a successful call can give, by operation; none when the
\* database rejects the call whatever else happens.
OkBodies(op, params) ==
    LET name == Lookup(params, "TableName").s
    IN CASE op = "list_tables" -> {ListTablesBody(params)}
         [] op = "create_table" ->
              IF name \in ExistingTables THEN {} ELSE {TableDescription(name)}
         [] name \notin ExistingTables \/ name # "Orders" -> {}
         [] op = "describe_table" ->
              {PyDict(<<"Table">>, <<PyDict(<<"TableName", "TableStatus">>,
                                            <<PyStr(name), PyStr("ACTIVE")>>)>>)}
         [] op = "update_table" -> {TableDescription(name)}
         [] op = "put_item" -> {EmptyDict}
         [] op = "get_item" ->
              {PyDict(<<"Item">>, <<item>>) : item \in Stored(KeyId(Lookup(params, "Key")))}
              \cup (IF Stored(KeyId(Lookup(params, "Key"))) = {} THEN {EmptyDict} ELSE {})
         [] op = "update_item" ->
              IF HasKey(params, "ConditionExpression")
                 /\ ~db[KeyId(Lookup(params, "Key"))].present
              THEN {}
              ELSE {SetIf(Lookup(params, "ReturnValues").s = "ALL_NEW", EmptyDict,
                          "Attributes", Updated(params))}
         [] OTHER -> PageBodies(op, params)

\* client.<op>(**params): every outcome the call can have.
client_call(op, params) ==
    {Ok(body) : body \in OkBodies(op, params)} \cup {ClientError, OtherError}

(* ------------------------- the tools' arguments ----------------------- *)

\* readCapacity: int = 5, writeCapacity: int = 5
DefaultCapacity == 5

TableArgs == {"Orders", "Ghost"}

Item42 == PyDict(<<"id", "qty", "paid">>, <<PyStr("42"), PyInt("3"), PyBool("True")>>)

Item7 == PyDict(<<"id", "tags", "meta">>,
                <<PyStr("7"), PyList(<<PyStr("a"), PyFloat("1.5")>>),
                  PyDict(<<"k">>, <<PyNone>>)>>)

ItemArgs == {Item42, Item7}

KeyArgs == {PyDict(<<"id">>, <<PyStr(k)>>) : k \in KeyIds}

LimitArgs == {PyNone} \cup {PyInt(IntStr(n)) : n \in 0..MaxLimit}

Optional(S) == {PyNone} \cup {PyStr(x) : x \in S}

CapacityArgs == {PyInt(IntStr(DefaultCapacity)), PyInt("1")}

\* <<sortKey, sortKeyType>>
SortKeyArgs == {<<PyNone, PyNone>>, <<PyStr("ts"), PyStr("N")>>, <<PyStr("ts"), PyNone>>}

\* <<projectionType, nonKeyAttributes>>
ProjectionArgs == {<<"ALL", PyNone>>, <<"INCLUDE", PyList(<<PyStr("qty")>>)>>,
                   <<"INCLUDE", PyNone>>}

\* <<filterExpression, expressionAttributeValues, expressionAttributeNames>>
FilterArgs == {<<PyNone, PyNone, PyNone>>,
               <<PyNone, EmptyDict, EmptyDict>>,
               <<PyStr("attribute_exists(#q)"), PyNone, PyDict(<<"#q">>, <<PyStr("qty")>>)>>,
               <<PyStr("qty >= :q"), PyDict(<<":q">>, <<PyInt("3")>>), PyNone>>}

ValueArgs == {PyInt("9")}

(* ------------------------------ handlers ------------------------------ *)

pvars == <<sessions, issued, sessionId, reqs, frames>>

Returned(value) == [outcome |-> "returned", result |-> value]

Raised == [outcome |-> "raised", result |-> PyNone]

\* {"error": str(e)}
ErrorResult(e) == PyDict(<<"error">>, <<PyStr(str(e))>>)

\* try: ...; return value / except ClientError as e: return {"error": str(e)}
\* Any other exception leaves the handler.
ExceptClientError(response, value) ==
    IF response.kind = "ok" THEN Returned(value)
    ELSE IF response.kind = "ClientError" THEN Returned(ErrorResult(response.body))
    ELSE Raised

\* get_dynamodb_client(): a new client per call, from the environment's
\* credentials and region; nothing is kept between calls.
get_dynamodb_client ==
    [service |-> "dynamodb", aws_access_key_id |-> "AWS_ACCESS_KEY_ID",
     aws_secret_access_key |-> "AWS_SECRET_ACCESS_KEY", region_name |-> "AWS_REGION"]

Call(op, params) == [op |-> op, params |-> params]

Done(tool, args, clients, calls, response, ret) ==
    last' = [tool |-> tool, args |-> args, clients |-> clients, calls |-> calls,
             response |-> response, outcome |-> ret.outcome, result |-> ret.result]

list_tables ==
    \E limit \in LimitArgs, exclusiveStartTableName \in Optional({"Orders"}) :
      LET params == SetIf(Truthy(exclusiveStartTableName),
                          SetIf(Truthy(limit), EmptyDict, "Limit", limit),
                          "ExclusiveStartTableName", exclusiveStartTableName)
      IN \E response \in client_call("list_tables", params) :
           /\ Done("list_tables",
                   PyDict(<<"limit", "exclusiveStartTableName">>,
                          <<limit, exclusiveStartTableName>>),
                   <<get_dynamodb_client>>, <<Call("list_tables", params)>>, response,
                   ExceptClientError(response,
                       PyDict(<<"TableNames", "LastEvaluatedTableName">>,
                              <<Lookup(response.body, "TableNames"),
                                DictGet(response.body, "LastEvaluatedTableName", PyNone)>>)))
           /\ UNCHANGED <<db, pvars>>

describe_table ==
    \E tableName \in TableArgs :
      LET params == PyDict(<<"TableName">>, <<PyStr(tableName)>>)
      IN \E response \in client_call("describe_table", params) :
           /\ Done("describe_table", PyDict(<<"tableName">>, <<PyStr(tableName)>>),
                   <<get_dynamodb_client>>, <<Call("describe_table", params)>>, response,
                   ExceptClientError(response, Lookup(response.body, "Table")))
           /\ UNCHANGED <<db, pvars>>

\* key_schema and attribute_definitions, as create_table and create_gsi build them.
KeySchema(partitionKey, sortKey) ==
    LET hash == <<PyDict(<<"AttributeName", "KeyType">>, <<partitionKey, PyStr("HASH")>>)>>
    IN PyList(IF Truthy(sortKey)
              THEN Append(hash, PyDict(<<"AttributeName", "KeyType">>,
                                       <<sortKey, PyStr("RANGE")>>))
              ELSE hash)

AttributeDefinitions(partitionKey, partitionKeyType, sortKey, sortKeyType) ==
    LET hash == <<PyDict(<<"AttributeName", "AttributeType">>,
                         <<partitionKey, partitionKeyType>>)>>
    IN PyList(IF Truthy(sortKey)
              THEN Append(hash, PyDict(<<"AttributeName", "AttributeType">>,
                                       <<sortKey, sortKeyType>>))
              ELSE hash)

ProvisionedThroughput(readCapacity, writeCapacity) ==
    PyDict(<<"ReadCapacityUnits", "WriteCapacityUnits">>, <<readCapacity, writeCapacity>>)

create_table ==
    \E tableName \in TableArgs, sort \in SortKeyArgs :
      LET partitionKey == PyStr("id")
          partitionKeyType == PyStr("S")
          sortKey == sort[1]
          sortKeyType == sort[2]
          readCapacity == PyInt(IntStr(DefaultCapacity))
          writeCapacity == PyInt(IntStr(DefaultCapacity))
          params == PyDict(<<"TableName", "KeySchema", "AttributeDefinitions",
                             "BillingMode", "ProvisionedThroughput">>,
                           <<PyStr(tableName), KeySchema(partitionKey, sortKey),
                             AttributeDefinitions(partitionKey, partitionKeyType,
                                                  sortKey, sortKeyType),
                             PyStr("PROVISIONED"),
                             ProvisionedThroughput(readCapacity, writeCapacity)>>)
      IN \E response \in client_call("create_table", params) :
           /\ Done("create_table",
                   PyDict(<<"tableName", "partitionKey", "partitionKeyType", "sortKey",
                            "sortKeyType", "readCapacity", "writeCapacity">>,
                          <<PyStr(tableName), partitionKey, partitionKeyType, sortKey,
                            sortKeyType, readCapacity, writeCapacity>>),
                   <<get_dynamodb_client>>, <<Call("create_table", params)>>, response,
                   ExceptClientError(response,
                       PyDict(<<"status", "tableArn">>,
                              <<PyStr("creating"),
                                Lookup(Lookup(response.body, "TableDescription"), "TableArn")>>)))
           /\ UNCHANGED <<db, pvars>>

update_capacity ==
    \E tableName \in {"Orders"}, readCapacity \in CapacityArgs :
      LET writeCapacity == PyInt(IntStr(DefaultCapacity))
          params == PyDict(<<"TableName", "ProvisionedThroughput">>,
                           <<PyStr(tableName),
                             ProvisionedThroughput(readCapacity, writeCapacity)>>)
      IN \E response \in client_call("update_table", params) :
           /\ Done("update_capacity",
                   PyDict(<<"tableName", "readCapacity", "writeCapacity">>,
                          <<PyStr(tableName), readCapacity, writeCapacity>>),
                   <<get_dynamodb_client>>, <<Call("update_table", params)>>, response,
                   ExceptClientError(response,
                       PyDict(<<"status", "tableArn">>,
                              <<PyStr("updating"),
                                Lookup(Lookup(response.body, "TableDescription"), "TableArn")>>)))
           /\ UNCHANGED <<db, pvars>>

put_item ==
    \E tableName \in TableArgs, item \in ItemArgs :
      LET dynamodb_item == serialize_dynamodb_item(item)
          params == PyDict(<<"TableName", "Item">>, <<PyStr(tableName), dynamodb_item>>)
      IN \E response \in client_call("put_item", params) :
           /\ Done("put_item", PyDict(<<"tableName", "item">>, <<PyStr(tableName), item>>),
                   <<get_dynamodb_client>>, <<Call("put_item", params)>>, response,
                   ExceptClientError(response, PyDict(<<"status">>, <<PyStr("success")>>)))
           /\ db' = IF response.kind = "ok"
                    THEN [db EXCEPT ![Lookup(item, "id").s] =
                                       Entry(item, Lookup(params, "Item"))]
                    ELSE db
           /\ UNCHANGED pvars

\* The mutant of get_item that reads response['Item'] and reports its absence.
get_item_strict ==
    \E tableName \in TableArgs, key \in KeyArgs :
      LET dynamodb_key == serialize_dynamodb_item(key)
          params == PyDict(<<"TableName", "Key">>, <<PyStr(tableName), dynamodb_key>>)
      IN \E response \in client_call("get_item", params) :
           /\ Done("get_item", PyDict(<<"tableName", "key">>, <<PyStr(tableName), key>>),
                   <<get_dynamodb_client>>, <<Call("get_item", params)>>, response,
                   ExceptClientError(response,
                       DictGet(response.body, "Item", ErrorResult(PyStr("'Item'")))))
           /\ UNCHANGED <<db, pvars>>

get_item ==
    \E tableName \in TableArgs, key \in KeyArgs :
      LET dynamodb_key == serialize_dynamodb_item(key)
          params == PyDict(<<"TableName", "Key">>, <<PyStr(tableName), dynamodb_key>>)
      IN \E response \in client_call("get_item", params) :
           /\ Done("get_item", PyDict(<<"tableName", "key">>, <<PyStr(tableName), key>>),
                   <<get_dynamodb_client>>, <<Call("get_item", params)>>, response,
                   ExceptClientError(response, DictGet(response.body, "Item", EmptyDict)))
           /\ UNCHANGED <<db, pvars>>

update_item ==
    \E tableName \in {"Orders"}, key \in KeyArgs, value \in ValueArgs,
       conditionExpression \in Optional({"attribute_exists(id)"}),
       returnValues \in {"ALL_NEW", "NONE"} :
      LET updateExpression == PyStr("SET #a = :v")
          expressionAttributeNames == PyDict(<<"#a">>, <<PyStr("qty")>>)
          expressionAttributeValues == PyDict(<<":v">>, <<value>>)
          dynamodb_key == serialize_dynamodb_item(key)
          dynamodb_values == serialize_dynamodb_item(expressionAttributeValues)
          params == SetIf(Truthy(conditionExpression),
                          PyDict(<<"TableName", "Key", "UpdateExpression",
                                   "ExpressionAttributeNames", "ExpressionAttributeValues",
                                   "ReturnValues">>,
                                 <<PyStr(tableName), dynamodb_key, updateExpression,
                                   expressionAttributeNames, dynamodb_values,
                                   PyStr(returnValues)>>),
                          "ConditionExpression", conditionExpression)
          k == Lookup(key, "id").s
      IN \E response \in client_call("update_item", params) :
           /\ Done("update_item",
                   PyDict(<<"tableName", "key", "updateExpression",
                            "expressionAttributeNames", "expressionAttributeValues",
                            "conditionExpression", "returnValues">>,
                          <<PyStr(tableName), key, updateExpression,
                            expressionAttributeNames, expressionAttributeValues,
                            conditionExpression, PyStr(returnValues)>>),
                   <<get_dynamodb_client>>, <<Call("update_item", params)>>, response,
                   ExceptClientError(response, DictGet(response.body, "Attributes", EmptyDict)))
           /\ db' = IF response.kind = "ok"
                    THEN [db EXCEPT ![k] =
                            Entry(DictSet(IF db[k].present THEN db[k].orig ELSE key,
                                          "qty", value),
                                  Updated(params))]
                    ELSE db
           /\ UNCHANGED pvars

\* The mutant of scan_table that follows LastEvaluatedKey with a second call.
scan_table_paginating ==
    \E limit \in LimitArgs :
      LET params == SetIf(Truthy(limit), PyDict(<<"TableName">>, <<PyStr("Orders")>>),
                          "Limit", limit)
      IN \E response \in client_call("scan", params) :
           LET more == response.kind = "ok" /\ HasKey(response.body, "LastEvaluatedKey")
               next == DictSet(params, "ExclusiveStartKey",
                               DictGet(response.body, "LastEvaluatedKey", PyNone))
           IN /\ Done("scan_table",
                      PyDict(<<"tableName", "limit">>, <<PyStr("Orders"), limit>>),
                      <<get_dynamodb_client>>,
                      IF more THEN <<Call("scan", params), Call("scan", next)>>
                      ELSE <<Call("scan", params)>>,
                      response,
                      ExceptClientError(response,
                          PyDict(<<"Items", "Count", "ScannedCount">>,
                                 <<DictGet(response.body, "Items", PyList(<<>>)),
                                   DictGet(response.body, "Count", PyInt("0")),
                                   DictGet(response.body, "ScannedCount", PyInt("0"))>>)))
              /\ UNCHANGED <<db, pvars>>

scan_table ==
    \E tableName \in TableArgs, filter \in FilterArgs, limit \in LimitArgs :
      LET filterExpression == filter[1]
          expressionAttributeValues == filter[2]
          expressionAttributeNames == filter[3]
          params ==
            SetIf(Truthy(limit),
              SetIf(Truthy(expressionAttributeNames),
                SetIf(Truthy(expressionAttributeValues),
                  SetIf(Truthy(filterExpression),
                        PyDict(<<"TableName">>, <<PyStr(tableName)>>),
                        "FilterExpression", filterExpression),
                  "ExpressionAttributeValues",
                  serialize_dynamodb_item(expressionAttributeValues)),
                "ExpressionAttributeNames", expressionAttributeNames),
              "Limit", limit)
      IN \E response \in client_call("scan", params) :
           /\ Done("scan_table",
                   PyDict(<<"tableName", "filterExpression", "expressionAttributeValues",
                            "expressionAttributeNames", "limit">>,
                          <<PyStr(tableName), filterExpression, expressionAttributeValues,
                            expressionAttributeNames, limit>>),
                   <<get_dynamodb_client>>, <<Call("scan", params)>>, response,
                   ExceptClientError(response,
                       PyDict(<<"Items", "Count", "ScannedCount">>,
                              <<DictGet(response.body, "Items", PyList(<<>>)),
                                DictGet(response.body, "Count", PyInt("0")),
                                DictGet(response.body, "ScannedCount", PyInt("0"))>>)))
           /\ UNCHANGED <<db, pvars>>

query_table ==
    \E tableName \in {"Orders"}, id \in KeyIds, filter \in {f \in FilterArgs : f[2] = PyNone},
       limit \in LimitArgs :
      LET filterExpression == filter[1]
          expressionAttributeNames == filter[3]
          keyConditionExpression == PyStr("id = :id")
          expressionAttributeValues == PyDict(<<":id">>, <<PyStr(id)>>)
          params ==
            SetIf(Truthy(limit),
              SetIf(Truthy(filterExpression),
                SetIf(Truthy(expressionAttributeNames),
                      PyDict(<<"TableName", "KeyConditionExpression",
                               "ExpressionAttributeValues">>,
                             <<PyStr(tableName), keyConditionExpression,
                               serialize_dynamodb_item(expressionAttributeValues)>>),
                      "ExpressionAttributeNames", expressionAttributeNames),
                "FilterExpression", filterExpression),
              "Limit", limit)
      IN \E response \in client_call("query", params) :
           /\ Done("query_table",
                   PyDict(<<"tableName", "keyConditionExpression",
                            "expressionAttributeValues", "expressionAttributeNames",
                            "filterExpression", "limit">>,
                          <<PyStr(tableName), keyConditionExpression,
                            expressionAttributeValues, expressionAttributeNames,
                            filterExpression, limit>>),
                   <<get_dynamodb_client>>, <<Call("query", params)>>, response,
                   ExceptClientError(response,
                       PyDict(<<"Items", "Count">>,
                              <<DictGet(response.body, "Items", PyList(<<>>)),
                                DictGet(response.body, "Count", PyInt("0"))>>)))
           /\ UNCHANGED <<db, pvars>>

create_gsi ==
    \E tableName \in {"Orders"}, sort \in {k \in SortKeyArgs : Truthy(k[1]) = Truthy(k[2])},
       projection_ \in ProjectionArgs :
      LET sortKey == sort[1]
          sortKeyType == sort[2]
          projectionType == projection_[1]
          nonKeyAttributes == projection_[2]
          indexName == PyStr("byKind")
          partitionKey == PyStr("kind")
          partitionKeyType == PyStr("S")
          readCapacity == PyInt(IntStr(DefaultCapacity))
          writeCapacity == PyInt(IntStr(DefaultCapacity))
          projection == SetIf(projectionType = "INCLUDE" /\ Truthy(nonKeyAttributes),
                              PyDict(<<"ProjectionType">>, <<PyStr(projectionType)>>),
                              "NonKeyAttributes", nonKeyAttributes)
          gsi_spec == PyDict(<<"IndexName", "KeySchema", "Projection",
                               "ProvisionedThroughput">>,
                             <<indexName, KeySchema(partitionKey, sortKey), projection,
                               ProvisionedThroughput(readCapacity, writeCapacity)>>)
          params == PyDict(<<"TableName", "AttributeDefinitions",
                             "GlobalSecondaryIndexUpdates">>,
                           <<PyStr(tableName),
                             AttributeDefinitions(partitionKey, partitionKeyType,
                                                  sortKey, sortKeyType),
                             PyList(<<PyDict(<<"Create">>, <<gsi_spec>>)>>)>>)
      IN \E response \in client_call("update_table", params) :
           /\ Done("create_gsi",
                   PyDict(<<"tableName", "indexName", "partitionKey", "partitionKeyType",
                            "sortKey", "sortKeyType", "projectionType", "nonKeyAttributes",
                            "readCapacity", "writeCapacity">>,
                          <<PyStr(tableName), indexName, partitionKey, partitionKeyType,
                            sortKey, sortKeyType, PyStr(projectionType), nonKeyAttributes,
                            readCapacity, writeCapacity>>),
                   <<get_dynamodb_client>>, <<Call("update_table", params)>>, response,
                   ExceptClientError(response,
                       PyDict(<<"status", "indexName">>, <<PyStr("creating"), indexName>>)))
           /\ UNCHANGED <<db, pvars>>

update_gsi ==
    \E tableName \in {"Orders"}, readCapacity \in CapacityArgs :
      LET indexName == PyStr("byKind")
          writeCapacity == PyInt(IntStr(DefaultCapacity))
          params == PyDict(<<"TableName", "GlobalSecondaryIndexUpdates">>,
                           <<PyStr(tableName),
                             PyList(<<PyDict(<<"Update">>,
                                 <<PyDict(<<"IndexName", "ProvisionedThroughput">>,
                                          <<indexName,
                                            ProvisionedThroughput(readCapacity,
                                                                  writeCapacity)>>)>>)>>)>>)
      IN \E response \in client_call("update_table", params) :
           /\ Done("update_gsi",
                   PyDict(<<"tableName", "indexName", "readCapacity", "writeCapacity">>,
                          <<PyStr(tableName), indexName, readCapacity, writeCapacity>>),
                   <<get_dynamodb_client>>, <<Call("update_table", params)>>, response,
                   ExceptClientError(response,
                       PyDict(<<"status", "indexName">>, <<PyStr("updating"), indexName>>)))
           /\ UNCHANGED <<db, pvars>>

LsiUnsupported ==
    PyDict(<<"error">>,
           <<PyStr("Local Secondary Indexes can only be created during table creation. Use create_table with LSI specification.")>>)

LsiArgs(tableName, projectionType, nonKeyAttributes) ==
    PyDict(<<"tableName", "indexName", "partitionKey", "partitionKeyType", "sortKey",
             "sortKeyType", "projectionType", "nonKeyAttributes", "readCapacity",
             "writeCapacity">>,
           <<PyStr(tableName), PyStr("byTs"), PyStr("id"), PyStr("S"), PyStr("ts"),
             PyStr("N"), PyStr(projectionType), nonKeyAttributes,
             PyInt(IntStr(DefaultCapacity)), PyInt(IntStr(DefaultCapacity))>>)

\* The mutant of create_lsi that tries the index creation the way create_gsi does.
create_lsi_calling ==
    \E tableName \in TableArgs, projection_ \in ProjectionArgs :
      LET params == PyDict(<<"TableName">>, <<PyStr(tableName)>>)
      IN \E response \in client_call("update_table", params) :
           /\ Done("create_lsi", LsiArgs(tableName, projection_[1], projection_[2]),
                   <<get_dynamodb_client>>, <<Call("update_table", params)>>, response,
                   Returned(LsiUnsupported))
           /\ UNCHANGED <<db, pvars>>

create_lsi ==
    \E tableName \in TableArgs, projection_ \in ProjectionArgs :
      /\ Done("create_lsi", LsiArgs(tableName, projection_[1], projection_[2]),
              <<>>, <<>>, NoResponse, Returned(LsiUnsupported))
      /\ UNCHANGED <<db, pvars>>

(* --------------------------- the tool registry ------------------------ *)

\* The tools, in the order the @mcp.tool() decorators register them.
ToolNames ==
    <<"list_tables", "describe_table", "create_table", "update_capacity", "put_item",
      "get_item", "update_item", "scan_table", "query_table", "create_gsi", "update_gsi",
      "create_lsi">>

Registered == {ToolNames[i] : i \in 1..Len(ToolNames)}

\* The mutant of Required in which update_item's expressionAttributeNames has
\* a default, as scan_table's has.
Required_defaulted(tool) ==
    CASE tool = "describe_table" -> {"tableName"}
      [] tool = "update_item" ->
           {"tableName", "key", "updateExpression", "expressionAttributeValues"}
      [] tool = "create_lsi" ->
           {"tableName", "indexName", "partitionKey", "partitionKeyType", "sortKey",
            "sortKeyType"}
      [] OTHER -> {}

\* The parameters a tool's signature gives no default.
Required(tool) ==
    CASE tool = "list_tables" -> {}
      [] tool = "describe_table" -> {"tableName"}
      [] tool = "create_table" -> {"tableName", "partitionKey", "partitionKeyType"}
      [] tool = "update_capacity" -> {"tableName", "readCapacity", "writeCapacity"}
      [] tool = "put_item" -> {"tableName", "item"}
      [] tool = "get_item" -> {"tableName", "key"}
      [] tool = "update_item" ->
           {"tableName", "key", "updateExpression", "expressionAttributeNames",
            "expressionAttributeValues"}
      [] tool = "scan_table" -> {"tableName"}
      [] tool = "query_table" ->
           {"tableName", "keyConditionExpression", "expressionAttributeValues"}
      [] tool = "create_gsi" ->
           {"tableName", "indexName", "partitionKey", "partitionKeyType"}
      [] tool = "update_gsi" -> {"tableName", "indexName", "readCapacity", "writeCapacity"}
      [] tool = "create_lsi" ->
           {"tableName", "indexName", "partitionKey", "partitionKeyType", "sortKey",
            "sortKeyType"}
      [] OTHER -> {}

(* ------------------------- the handlers' runs ------------------------- *)

Slots == 1..MaxInFlight

Free ==
    [pc |-> "free", from |-> "", id |-> 0, method |-> "", sid |-> 0, tool |-> "",
     given |-> {}, table |-> "", live |-> FALSE, started |-> FALSE, calls |-> 0,
     remote |-> "", overlap |-> FALSE,
     resp |-> [id |-> 0, error |-> "", kind |-> "", tool |-> "", table |-> "", header |-> 0]]

NoReply == [kind |-> "", tool |-> "", table |-> ""]

NoFrame == [params |-> [tool |-> "", table |-> ""], response |-> NoReply]

NoInvocation ==
    [tool |-> "none", args |-> EmptyDict, clients |-> <<>>, calls |-> <<>>,
     response |-> NoResponse, outcome |-> "returned", result |-> PyNone]

Init ==
    /\ db = [k \in KeyIds |-> Absent]
    /\ last = NoInvocation
    /\ sessions = {}
    /\ issued = 0
    /\ sessionId = 0
    /\ reqs = [slot \in Slots |-> Free]
    /\ frames = [slot \in Slots |-> NoFrame]

Next ==
    \/ list_tables
    \/ describe_table
    \/ create_table
    \/ update_capacity
    \/ put_item
    \/ get_item
    \/ update_item
    \/ scan_table
    \/ query_table
    \/ create_gsi
    \/ update_gsi
    \/ create_lsi

Spec == Init /\ [][Next]_vars

(* ------------------------ the session protocol ------------------------ *)

hvars == <<db, last>>

\* The correlation ids callers use; the test console always sends 1.
Ids == {1, 2}

\* mcp-session-id headers: 0 is no header, MaxSessions + 1 an id never issued.
NeverIssued == MaxSessions + 1

SidArgs == 0..NeverIssued

\* <<name, the arguments given>> of a tools/call.
CallArgs ==
    {<<"describe_table", {"tableName"}>>,
     <<"describe_table", {}>>,
     <<"update_item", {"tableName", "key", "updateExpression", "expressionAttributeNames",
                       "expressionAttributeValues"}>>,
     <<"update_item", {"tableName", "key", "updateExpression",
                       "expressionAttributeValues", "returnValues"}>>,
     <<"create_lsi", {"tableName", "indexName", "partitionKey", "partitionKeyType",
                      "sortKey", "sortKeyType"}>>,
     <<"create_lsi", {"tableName", "indexName", "partitionKey", "partitionKeyType",
                      "sortKey"}>>,
     <<"no_such_tool", {}>>}

\* Session Manager validate(id): the id is one the server issued and still holds.
validate_nonempty(sid) == sid # 0

validate(sid) == sid \in sessions

\* The locals of one handler invocation (client, params, response) live in
\* that invocation's own frame.
Frame_shared(slot) == 1

Frame(slot) == slot

Reply(id, error, result, header) ==
    [id |-> id, error |-> error, kind |-> result.kind, tool |-> result.tool,
     table |-> result.table, header |-> header]

\* The requests a caller can send. The test console's mcpCall sends id 1 and
\* the mcp-session-id header when its sessionId is set: initialize from
\* testConnection, a tools/call of list_tables from listTables.
Requests ==
    {[Free EXCEPT !.from = "other", !.id = id, !.method = "initialize"] : id \in Ids}
    \cup {[Free EXCEPT !.from = "other", !.id = id, !.method = "tools/list", !.sid = sid] :
            id \in Ids, sid \in SidArgs}
    \cup {[Free EXCEPT !.from = "other", !.id = c[1], !.method = "tools/call",
                       !.sid = c[2], !.tool = c[3][1], !.given = c[3][2],
                       !.table = c[4]] :
            c \in Ids \X SidArgs \X CallArgs \X {"Orders", "Users"}}
    \cup {[Free EXCEPT !.from = "console", !.id = 1, !.method = "initialize",
                       !.sid = sessionId],
          [Free EXCEPT !.from = "console", !.id = 1, !.method = "tools/call",
                       !.sid = sessionId, !.tool = "list_tables", !.table = "Orders"]}

\* A request is taken up by the first task that is idle.
Idle(slot) ==
    /\ reqs[slot].pc = "free"
    /\ \A other \in Slots : other < slot => reqs[other].pc # "free"

Respond(slot, r, error, result, header) ==
    reqs' = [reqs EXCEPT ![slot] =
                [r EXCEPT !.pc = "responded", !.resp = Reply(r.id, error, result, header)]]

\* initialize: the Session Manager creates a session and the response carries
\* its id.
Initialize(slot, R) ==
    /\ Idle(slot)
    /\ issued < MaxSessions
    /\ \E r \in R :
         /\ r.method = "initialize"
         /\ issued' = issued + 1
         /\ sessions' = sessions \cup {issued + 1}
         /\ Respond(slot, r, "", [kind |-> "capabilities", tool |-> "", table |-> ""],
                    issued + 1)
    /\ UNCHANGED <<hvars, sessionId, frames>>

\* tools/list: the registry's tools, to a caller with a session.
ToolsList(slot, R) ==
    /\ Idle(slot)
    /\ \E r \in R :
         /\ r.method = "tools/list"
         /\ LET q == [r EXCEPT !.live = r.sid \in sessions]
            IN IF ~validate(r.sid)
               THEN Respond(slot, q, "SessionError", NoReply, 0)
               ELSE Respond(slot, q, "", [kind |-> "tools", tool |-> "", table |-> ""], 0)
    /\ UNCHANGED <<hvars, sessions, issued, sessionId, frames>>

\* tools/call up to the handler's start: the session, the tool's name and the
\* arguments are checked in that order; the handler then builds its
\* parameters from the arguments.
ToolsCall(slot, R) ==
    /\ Idle(slot)
    /\ \E r \in R :
         /\ r.method = "tools/call"
         /\ LET q == [r EXCEPT !.live = r.sid \in sessions]
            IN IF ~validate(r.sid)
               THEN Respond(slot, q, "SessionError", NoReply, 0) /\ UNCHANGED frames
               ELSE IF r.tool \notin Registered
               THEN Respond(slot, q, "ToolNotFound", NoReply, 0) /\ UNCHANGED frames
               ELSE IF ~(Required(r.tool) \subseteq r.given)
               THEN Respond(slot, q, "InvalidArguments", NoReply, 0) /\ UNCHANGED frames
               ELSE /\ reqs' = [reqs EXCEPT ![slot] =
                                   [q EXCEPT !.pc = "running", !.started = TRUE]]
                    /\ frames' = [frames EXCEPT ![Frame(slot)] =
                                     [params |-> [tool |-> r.tool, table |-> r.table],
                                      response |-> NoReply]]
    /\ UNCHANGED <<hvars, sessions, issued, sessionId>>

\* response = client.<op>(**params): the one remote call of a handler, which
\* create_lsi does not make.
HandlerCall(slot) ==
    /\ reqs[slot].pc = "running"
    /\ reqs[slot].tool # "create_lsi"
    /\ \E kind \in {"ok", "ClientError", "BotoCoreError"} :
         /\ frames' = [frames EXCEPT ![Frame(slot)].response =
                          [kind |-> kind, tool |-> frames[Frame(slot)].params.tool,
                           table |-> frames[Frame(slot)].params.table]]
         /\ reqs' = [reqs EXCEPT ![slot].pc = "called", ![slot].calls = @ + 1,
                                  ![slot].remote = kind]
    /\ UNCHANGED <<hvars, sessions, issued, sessionId>>

\* The handler returns what it made of its response, or {"error": ...} for a
\* ClientError; the dispatcher wraps an exception that leaves the handler.
HandlerReturn(slot) ==
    /\ \/ reqs[slot].pc = "called"
       \/ reqs[slot].pc = "running" /\ reqs[slot].tool = "create_lsi"
    /\ LET r == [reqs[slot] EXCEPT !.overlap =
                      \E other \in Slots \ {slot} :
                          /\ reqs[other].pc \in {"running", "called"}
                          /\ reqs[other].sid = reqs[slot].sid]
           response == frames[Frame(slot)].response
       IN IF r.tool = "create_lsi"
          THEN Respond(slot, r, "", [kind |-> "error", tool |-> "create_lsi", table |-> ""], 0)
          ELSE IF response.kind = "BotoCoreError"
          THEN Respond(slot, r, "InternalError", NoReply, 0)
          ELSE Respond(slot, r, "",
                       [kind |-> IF response.kind = "ok" THEN "value" ELSE "error",
                        tool |-> response.tool, table |-> response.table], 0)
    /\ frames' = [frames EXCEPT ![Frame(slot)] = NoFrame]
    /\ UNCHANGED <<hvars, sessions, issued, sessionId>>

\* The response reaches its caller; mcpCall keeps the session id a response
\* carries.
Deliver(slot) ==
    /\ reqs[slot].pc = "responded"
    /\ sessionId' = IF reqs[slot].from = "console" /\ reqs[slot].resp.header # 0
                    THEN reqs[slot].resp.header ELSE sessionId
    /\ reqs' = [reqs EXCEPT ![slot] = Free]
    /\ UNCHANGED <<hvars, sessions, issued, frames>>

\* A session idle for too long is evicted.
Expire ==
    /\ \E sid \in sessions : sessions' = sessions \ {sid}
    /\ UNCHANGED <<hvars, issued, sessionId, reqs, frames>>

\* One request at a time, of every kind.
NextProtocol ==
    \/ Initialize(1, Requests)
    \/ ToolsList(1, Requests)
    \/ ToolsCall(1, Requests)
    \/ HandlerCall(1)
    \/ HandlerReturn(1)
    \/ Deliver(1)
    \/ Expire

SpecProtocol == Init /\ [][NextProtocol]_vars

\* <<correlation id, tableName>>: two callers, each asking about its own table.
Callers == {<<1, "Orders">>, <<2, "Users">>}

\* The tools/call requests of callers that hold a session, several in flight.
ConcurrentCalls ==
    {[Free EXCEPT !.from = "other", !.id = c[1][1], !.method = "tools/call",
                  !.sid = c[2], !.tool = "describe_table",
                  !.given = Required("describe_table"), !.table = c[1][2]] :
        c \in Callers \X (1..MaxSessions)}

NextConcurrent ==
    \/ \E slot \in Slots :
         \/ Initialize(slot, {[Free EXCEPT !.from = "other", !.id = 1,
                                            !.method = "initialize"]})
         \/ ToolsCall(slot, ConcurrentCalls)
         \/ HandlerCall(slot)
         \/ HandlerReturn(slot)
         \/ Deliver(slot)
    \/ Expire

SpecConcurrent == Init /\ [][NextConcurrent]_vars

(* ------------------------------ the claims ---------------------------- *)

Ran(tool) == last.tool = tool

Sent == last.calls[1].params

\* C1: put_item sends a string attribute under S, a number under N as its
\* decimal text and a boolean under BOOL, and answers {status: "success"}
\* when the database accepts the item.
C1_PutItemEncodesByKind ==
    Ran("put_item") =>
      LET item == Lookup(last.args, "item")
      IN /\ \A i \in 1..Len(item.keys) :
              LET value == item.items[i]
                  sent == Lookup(Lookup(Sent, "Item"), item.keys[i])
              IN /\ value.t = "str" => sent = PyDict(<<"S">>, <<value>>)
                 /\ value.t \in {"int", "float"} => sent = PyDict(<<"N">>, <<PyStr(value.s)>>)
                 /\ value.t = "bool" => sent = PyDict(<<"BOOL">>, <<value>>)
         /\ last.response.kind = "ok" =>
              last.result = PyDict(<<"status">>, <<PyStr("success")>>)

\* C2: the item get_item returns for a key that a tool wrote is the plain
\* mapping the caller wrote, not its attribute-value form.
C2_GetItemReturnsPlainItem ==
    (/\ Ran("get_item")
     /\ last.response.kind = "ok"
     /\ db[Lookup(Lookup(last.args, "key"), "id").s].present)
    => last.result = db[Lookup(Lookup(last.args, "key"), "id").s].orig

\* C3: whatever the remote call does, a handler returns: a failure is an
\* {error: message} result and no exception leaves the handler.
C3_FailuresAreData ==
    /\ last.outcome = "returned"
    /\ last.response.kind \notin {"ok", "none"} => HasKey(last.result, "error")

\* C4: a scan or query whose response carries a continuation marker is not
\* answered with a plain success: the result is an error or names the marker.
C4_NoSilentTruncation ==
    (/\ Ran("scan_table") \/ Ran("query_table")
     /\ last.outcome = "returned"
     /\ last.response.kind = "ok"
     /\ HasKey(last.response.body, "LastEvaluatedKey"))
    => \/ HasKey(last.result, "error")
       \/ HasKey(last.result, "LastEvaluatedKey")

\* C5: create_lsi answers the fixed unsupported-operation error whatever its
\* arguments, builds no client and makes no remote call.
C5_CreateLsiIsFixed ==
    Ran("create_lsi") =>
      /\ last.outcome = "returned"
      /\ last.result =
           PyDict(<<"error">>,
                  <<PyStr("Local Secondary Indexes can only be created during table creation. Use create_table with LSI specification.")>>)
      /\ last.clients = <<>>
      /\ last.calls = <<>>
      /\ last.response = NoResponse

C5_Witness ==
    /\ Ran("create_lsi")
    /\ Lookup(last.args, "tableName") = PyStr("Ghost")
    /\ Lookup(last.args, "projectionType") = PyStr("INCLUDE")
    /\ last.outcome = "returned"

\* C6: get_item for a key the table does not hold answers the empty mapping,
\* and answers an {error: ...} result only when the remote call failed.
C6_GetItemAbsentIsEmpty ==
    Ran("get_item") =>
      /\ (/\ last.response.kind = "ok"
          /\ ~db[Lookup(Lookup(last.args, "key"), "id").s].present)
         => last.outcome = "returned" /\ last.result = EmptyDict
      /\ (last.outcome = "returned" /\ HasKey(last.result, "error"))
         => last.response.kind = "ClientError"

C6_Witness ==
    /\ Ran("get_item")
    /\ last.response.kind = "ok"
    /\ ~db["42"].present /\ db["7"].present
    /\ Lookup(last.args, "key") = PyDict(<<"id">>, <<PyStr("42")>>)
    /\ last.result = EmptyDict

\* C7: an invocation makes one remote call, and none when the tool is
\* create_lsi, whether the call succeeds, fails or leaves items unread.
C7_OneRemoteCall ==
    ~Ran("none") =>
      /\ Len(last.calls) <= 1
      /\ Ran("create_lsi") <=> Len(last.calls) = 0

C7_Witness ==
    /\ Ran("scan_table")
    /\ last.response.kind = "ok"
    /\ HasKey(last.response.body, "LastEvaluatedKey")
    /\ Len(last.calls) = 1

\* The arguments the tool inventory lists as required.
InventoryRequired(tool) ==
    CASE tool = "describe_table" -> {"tableName"}
      [] tool = "update_item" ->
           {"tableName", "key", "updateExpression", "expressionAttributeNames",
            "expressionAttributeValues"}
      [] tool = "create_lsi" ->
           {"tableName", "indexName", "partitionKey", "partitionKeyType", "sortKey",
            "sortKeyType"}
      [] OTHER -> {}

\* C8: a tools/call under a live session that omits an argument its tool
\* requires is answered InvalidArguments; its handler never starts and the
\* database is not called.
C8_MissingArgumentIsRejected ==
    \A slot \in Slots :
      LET r == reqs[slot]
      IN (/\ r.method = "tools/call"
          /\ r.live
          /\ ~(InventoryRequired(r.tool) \subseteq r.given))
         => /\ ~r.started
            /\ r.calls = 0
            /\ r.pc = "responded"
            /\ r.resp.error = "InvalidArguments"

C8_Witness ==
    \E slot \in Slots :
      /\ reqs[slot].pc = "responded"
      /\ reqs[slot].tool = "update_item"
      /\ "expressionAttributeNames" \notin reqs[slot].given
      /\ reqs[slot].live
      /\ reqs[slot].resp.error = "InvalidArguments"

\* C9: a request other than initialize whose session id the server does not
\* hold (never issued, or expired) is answered SessionError and starts no
\* handler; a session comes to exist, and the console comes to hold one, only
\* through an initialize request.
C9_SessionRequired ==
    /\ [](\A slot \in Slots :
            LET r == reqs[slot]
            IN (r.pc # "free" /\ r.method # "initialize" /\ ~r.live)
               => /\ ~r.started
                  /\ r.calls = 0
                  /\ r.pc = "responded"
                  /\ r.resp.error = "SessionError")
    /\ [][/\ ~(sessions' \subseteq sessions) =>
               \E slot \in Slots : /\ reqs[slot].pc = "free"
                                   /\ reqs'[slot].pc = "responded"
                                   /\ reqs'[slot].method = "initialize"
          /\ (sessionId = 0 /\ sessionId' # 0) =>
               \E slot \in Slots : /\ reqs[slot].pc = "responded"
                                   /\ reqs[slot].method = "initialize"
                                   /\ reqs'[slot].pc = "free"]_vars

C9_Witness ==
    \E slot \in Slots :
      /\ reqs[slot].pc = "responded"
      /\ reqs[slot].method = "tools/call"
      /\ reqs[slot].sid = NeverIssued
      /\ reqs[slot].tool = "describe_table"
      /\ reqs[slot].given = {"tableName"}
      /\ reqs[slot].resp.error = "SessionError"
      /\ sessions # {}

\* C10: of tools/call requests in flight together under one session, each is
\* answered with its own correlation id and with the outcome of its own
\* remote call on its own arguments.
C10_NoCrossTalk ==
    \A slot \in Slots :
      LET r == reqs[slot]
      IN (r.pc = "responded" /\ r.started) =>
           /\ r.resp.id = r.id
           /\ r.resp.error = (IF r.remote = "BotoCoreError" THEN "InternalError" ELSE "")
           /\ r.remote # "BotoCoreError" =>
                /\ r.resp.kind = (IF r.remote = "ok" THEN "value" ELSE "error")
                /\ r.resp.tool = r.tool
                /\ r.resp.table = r.table

C10_Witness ==
    \E a \in Slots, b \in Slots :
      /\ reqs[a].pc = "responded" /\ reqs[b].pc = "responded"
      /\ reqs[a].overlap
      /\ reqs[a].sid = reqs[b].sid
      /\ reqs[a].id # reqs[b].id
      /\ reqs[a].table # reqs[b].table
      /\ reqs[a].remote = "ok" /\ reqs[b].remote = "ClientError"
      /\ reqs[a].resp.error = "" /\ reqs[b].resp.error = ""

====
